---- MODULE Spec2Model ----
(***************************************************************************)
(* lisfan/logger: a namespaced facade over the host console.               *)
(*                                                                         *)
(* Five revisions of the Logger class are modelled side by side, selected  *)
(* by the variable rev, which never changes in a behaviour:                *)
(*   "1.1.0"  src/src/index.js   (instance debug flag tested before rules) *)
(*   "1.1.0-part_002"  src/unnamed/part_002: 1.1.0 with a $name setter     *)
(*            that assigns                                                 *)
(*   "1.2.0"  src/unnamed/part_001 (rules start empty, configRules added)  *)
(*   "1.3.2"  src/unnamed/part_003 (rules tested before the debug flag)    *)
(*   "1.3.2-readme"  the listing of src/README.md (statics written through *)
(*            the class, where part_003 writes through `self`)             *)
(***************************************************************************)
EXTENDS Naturals, Sequences, FiniteSets, TLC

VARIABLES
  rev,           \* the revision of the class that is loaded
  IS_DEV,        \* the global dev-mode flag, read once at load
  LOGGER_RULES,  \* the mapping read from localStorage at load (key LOGGER in 1.1.0)
  rules,         \* Logger.rules, the mapping isActivated reads (Logger.options in 1.1.0)
  options,       \* the default instance options (Logger.options in 1.3.2)
  globalSelf,    \* the properties of the host's global object `self` that 1.3.2 writes
  instances,     \* the $options record of every Logger instance
  held,          \* the function a caller got from color() and still holds, or NoFunction
  console,       \* the calls the host console received during the last operation
  last           \* the last operation: its caller's input and its outcome

vars == <<rev, IS_DEV, LOGGER_RULES, rules, options, globalSelf, instances, held, console,
          last>>

----------------------------------------------------------------------------
(* Bounds of the model                                                     *)

\* the longest argument list a caller passes
MaxArgs == 2

Revisions == {"1.1.0", "1.1.0-part_002", "1.2.0", "1.3.2", "1.3.2-readme"}

\* the two copies of 1.1.0: Logger.options is the rules mapping, the defaults are built in
Revisions_1_1_0 == {"1.1.0", "1.1.0-part_002"}

\* the Logger instances of the program
Loggers == {"L1", "L2"}

\* the namespaces given to the constructor; 'logger' is the default name
Names == {"logger", "logger.log"}

----------------------------------------------------------------------------
(* JavaScript values                                                       *)

JsTrue == [type |-> "boolean", v |-> "true"]
JsFalse == [type |-> "boolean", v |-> "false"]
Num0 == [type |-> "number", v |-> "0"]
Num1 == [type |-> "number", v |-> "1"]
Null == [type |-> "null", v |-> "null"]
Undefined == [type |-> "undefined", v |-> "undefined"]
Arr == [type |-> "array", v |-> "1,2,3"]
Obj == [type |-> "object", v |-> "{}"]
Elem == [type |-> "element", v |-> "<div>"]
Str(s) == [type |-> "string", v |-> s]

\* an object literal handed to a call
Rec(obj) == [type |-> "record", v |-> obj]

\* validation.isElement / isArray / isPlainObject / isBoolean of @~lisfan/validation
isElement(value) == value.type = "element"
isArray(value) == value.type = "array"
isPlainObject(value) == value.type = "object"
isBoolean(value) == value.type = "boolean"

\* [arg]: a one-element array holding arg
Wrap(arg) == [type |-> "array", v |-> arg.v]

\* value.toString(); not defined on null and undefined, where the call throws
toString(value) ==
  CASE value.type = "string" -> value.v
    [] value.type = "number" -> value.v
    [] value.type = "boolean" -> value.v
    [] value.type = "array" -> IF value.v = "<div>" THEN "[object HTMLDivElement]" ELSE value.v
    [] value.type = "object" -> "[object Object]"
    [] value.type = "element" -> "[object HTMLDivElement]"

hasToString(value) == value.type \notin {"null", "undefined"}

\* Array.prototype.join over strings
RECURSIVE join(_, _)
join(strs, sep) ==
  IF Len(strs) = 0 THEN ""
  ELSE IF Len(strs) = 1 THEN strs[1]
  ELSE strs[1] \o sep \o join(Tail(strs), sep)

\* obj[key]: undefined for a key the object does not hold
Get(obj, key) == IF key \in DOMAIN obj THEN obj[key] ELSE Undefined

\* {...a, ...b}
Spread(a, b) == [k \in DOMAIN a \cup DOMAIN b |-> IF k \in DOMAIN b THEN b[k] ELSE a[k]]

EmptyObj == [k \in {} |-> Undefined]

OneKey(key, value) == [k \in {key} |-> value]

----------------------------------------------------------------------------
(* Inputs                                                                  *)

OutputMethods == {"log", "warn", "trace", "info", "debug"}

OneLabelMethods == {"group", "groupCollapsed", "count", "time", "profile"}
NoArgMethods == {"groupEnd", "timeEnd", "profileEnd", "clear"}
RestMethods == {"dir", "dirxml", "timeStamp"}
PassMethods == OneLabelMethods \cup NoArgMethods \cup RestMethods \cup {"assert"}

MethodNames == OutputMethods \cup PassMethods \cup {"error", "table"}

\* isActivated() called without an argument
NoMethod == ""

\* the arguments callers give to isActivated
QueriedMethods == {NoMethod, "log", "info", "table", "error", "dir"}

\* the keys of the rules mapping: namespaces and namespace.method pairs
RuleKeys == {"logger", "logger.log"}
RuleValues == {JsTrue, JsFalse, Num0}
EnvValues == {JsTrue, JsFalse}

RuleMaps(keys, values) == UNION {[d -> values] : d \in SUBSET keys}

SeqsUpTo(S, n) == UNION {[1..k -> S] : k \in 0..n}

\* argument lists given to the printing methods, to error and to the pass-through methods
LogArgs == SeqsUpTo({Str("a"), Elem}, MaxArgs)
ShortArgs == SeqsUpTo({Str("a"), Elem}, MaxArgs - 1)
ErrorArgs == SeqsUpTo({Str("a"), Str("b")}, MaxArgs) \cup {<<Null>>, <<Str("a"), Undefined>>}
PassArgs == {SubSeq(<<Str("a"), Num1, Obj, Str("b")>>, 1, n) : n \in {0, MaxArgs}}
TableData == {Arr, Obj, Str("a"), Num1}
Colors == {"red"}

\* what a caller hands to the constructor: nothing, a name, or a record of options
CtorOptions ==
  {Undefined} \cup {Str(n) : n \in Names}
    \cup {[type |-> "record", v |-> o] :
            o \in {EmptyObj} \cup {OneKey("name", n) : n \in Names}
                   \cup {OneKey("debug", b) : b \in BOOLEAN}
                   \cup {[name |-> n, debug |-> b] : n \in Names, b \in BOOLEAN}}

----------------------------------------------------------------------------
(* Private helpers and the instance methods                                *)

\* $name and $debug getters
name(self) == self.name
debug(self) == self.debug

\* mutant: the rule of the namespace alone decides, the method's rule is never read
isActivated_1_1_0_NamespaceOnly(self, method) ==
  IF ~IS_DEV THEN FALSE
  ELSE IF ~debug(self) THEN FALSE
  ELSE IF Get(rules, name(self)) = JsFalse THEN FALSE ELSE TRUE

\* Logger.isActivated of 1.1.0: dev mode, then the instance's debug flag, then the rules
isActivated_1_1_0(self, method) ==
  IF ~IS_DEV THEN FALSE
  ELSE IF ~debug(self) THEN FALSE
  ELSE LET status == Get(rules, name(self))
           subStatus == Get(rules, name(self) \o "." \o method)
           resolved == IF method # NoMethod /\ isBoolean(subStatus) THEN subStatus ELSE status
       IN  IF resolved = JsFalse THEN FALSE ELSE TRUE

\* mutant: the dev-mode test is missing
isActivated_1_3_2_NoDevTest(self, method) ==
  LET status == Get(rules, name(self))
      subStatus == Get(rules, name(self) \o "." \o method)
      resolved == IF method # NoMethod /\ isBoolean(subStatus) THEN subStatus ELSE status
  IN  IF resolved = JsFalse THEN FALSE
      ELSE IF ~debug(self) THEN FALSE
      ELSE TRUE

\* mutant: the method's rule is taken only when it is false
isActivated_1_3_2_MethodRuleOnlyDisables(self, method) ==
  IF ~IS_DEV THEN FALSE
  ELSE LET status == Get(rules, name(self))
           subStatus == Get(rules, name(self) \o "." \o method)
           resolved == IF method # NoMethod /\ subStatus = JsFalse THEN subStatus ELSE status
       IN  IF resolved = JsFalse THEN FALSE
           ELSE IF ~debug(self) THEN FALSE
           ELSE TRUE

\* mutant: the instance's debug flag is never tested
isActivated_1_3_2_NoDebugTest(self, method) ==
  IF ~IS_DEV THEN FALSE
  ELSE LET status == Get(rules, name(self))
           subStatus == Get(rules, name(self) \o "." \o method)
           resolved == IF method # NoMethod /\ isBoolean(subStatus) THEN subStatus ELSE status
       IN  IF resolved = JsFalse THEN FALSE ELSE TRUE

\* mutant: a rule that is true activates whatever the instance's debug flag
isActivated_1_3_2_RuleBeatsDebug(self, method) ==
  IF ~IS_DEV THEN FALSE
  ELSE LET status == Get(rules, name(self))
           subStatus == Get(rules, name(self) \o "." \o method)
           resolved == IF method # NoMethod /\ isBoolean(subStatus) THEN subStatus ELSE status
       IN  IF resolved = JsFalse THEN FALSE
           ELSE IF resolved = JsTrue THEN TRUE
           ELSE IF ~debug(self) THEN FALSE
           ELSE TRUE

\* Logger.isActivated of 1.3.2: dev mode, then the rules, the instance's debug flag last
isActivated_1_3_2(self, method) ==
  IF ~IS_DEV THEN FALSE
  ELSE LET status == Get(rules, name(self))
           subStatus == Get(rules, name(self) \o "." \o method)
           resolved == IF method # NoMethod /\ isBoolean(subStatus) THEN subStatus ELSE status
       IN  IF resolved = JsFalse THEN FALSE
           ELSE IF ~debug(self) THEN FALSE
           ELSE TRUE

\* mutant: the rules are the mapping read at load, whatever configRules stored since
isActivated_1_2_0_RulesAtLoad(self, method) ==
  IF ~IS_DEV THEN FALSE
  ELSE IF ~debug(self) THEN FALSE
  ELSE LET status == Get(LOGGER_RULES, name(self))
           subStatus == Get(LOGGER_RULES, name(self) \o "." \o method)
           resolved == IF method # NoMethod /\ isBoolean(subStatus) THEN subStatus ELSE status
       IN  IF resolved = JsFalse THEN FALSE ELSE TRUE

\* mutant: !status in the place of status === false, and no isBoolean test
isActivated_1_2_0_Falsy(self, method) ==
  IF ~IS_DEV THEN FALSE
  ELSE IF ~debug(self) THEN FALSE
  ELSE LET status == Get(rules, name(self))
           subStatus == Get(rules, name(self) \o "." \o method)
           resolved == IF method # NoMethod /\ subStatus # Undefined THEN subStatus ELSE status
       IN  IF resolved \in {JsFalse, Num0} THEN FALSE ELSE TRUE

\* Logger.isActivated of 1.2.0: as in 1.1.0, the rules read from Logger.rules
isActivated_1_2_0(self, method) ==
  IF ~IS_DEV THEN FALSE
  ELSE IF ~debug(self) THEN FALSE
  ELSE LET status == Get(rules, name(self))
           subStatus == Get(rules, name(self) \o "." \o method)
           resolved == IF method # NoMethod /\ isBoolean(subStatus) THEN subStatus ELSE status
       IN  IF resolved = JsFalse THEN FALSE ELSE TRUE

isActivated(self, method) ==
  IF rev \in Revisions_1_1_0 THEN isActivated_1_1_0(self, method)
  ELSE IF rev = "1.2.0" THEN isActivated_1_2_0(self, method)
  ELSE isActivated_1_3_2(self, method)

\* a call console[method](...args)
Call(method, args) == [method |-> method, args |-> args]

\* mutant: DOM elements are forwarded as they are
formatted_NoWrap(self, color, args) ==
  <<Str("%c[" \o name(self) \o "]:%c"), Str("color: " \o color), Str("")>> \o args

\* the arguments of a printing call: format string, style, '', then the caller's
\* arguments with every DOM element wrapped in an array
formatted(self, color, args) ==
  <<Str("%c[" \o name(self) \o "]:%c"), Str("color: " \o color), Str("")>>
    \o [k \in 1..Len(args) |-> IF isElement(args[k]) THEN Wrap(args[k]) ELSE args[k]]

\* _actions.factory of 1.1.0: the calls the returned function makes
factory(self, method, color, args) ==
  IF isActivated(self, method) THEN <<Call(method, formatted(self, color, args))>> ELSE <<>>

\* _actions.logProxyRun of 1.3.2
logProxyRun(self, method, color, args) ==
  IF ~isActivated(self, method) THEN <<>> ELSE <<Call(method, formatted(self, color, args))>>

\* mutant: the console method is called twice
proxyRun_Twice(self, method, args) ==
  IF isActivated(self, method) THEN <<Call(method, args), Call(method, args)>> ELSE <<>>

\* _actions.proxyRun
proxyRun(self, method, args) ==
  IF isActivated(self, method) THEN <<Call(method, args)>> ELSE <<>>

\* the calls a printing method makes in the loaded revision
printer(self, method, color, args) ==
  IF rev \in Revisions_1_1_0 THEN factory(self, method, color, args)
  ELSE logProxyRun(self, method, color, args)

\* the record of an operation in `last`
Op(op, inst, method, args, threw, message, ret, note) ==
  [op |-> op, inst |-> inst, method |-> method, args |-> args, threw |-> threw,
   message |-> message, ret |-> ret, note |-> note]

Static == <<rev, IS_DEV, LOGGER_RULES>>

\* the caller holds no function of color()
NoFunction == [self |-> "", color |-> ""]

\* no call is in progress: the caller is free to make the next one
Idle(note) == Op("idle", "", "", <<>>, "none", "", "", note)
Idling == last.op = "idle"

\* the caller is free and holds no function of color()
Ready == Idling /\ held = NoFunction

\* mutant: a call that forwards nothing returns nothing
Returns_NothingWhenSilent(calls, op, i, method, args, note) ==
  /\ console' = calls
  /\ last' = Op(op, i, method, args, "none", "", IF calls = <<>> THEN "" ELSE i, note)
  /\ UNCHANGED <<Static, rules, options, globalSelf, instances>>

\* `return self`: the call made its console calls and hands the instance back
Returns(calls, op, i, method, args, note) ==
  /\ console' = calls
  /\ last' = Op(op, i, method, args, "none", "", i, note)
  /\ UNCHANGED <<Static, rules, options, globalSelf, instances>>

\* an instance method that returns the instance and changes nothing but the console
Prints(calls, op, i, method, args) ==
  /\ Ready
  /\ Returns(calls, op, i, method, args, "")
  /\ UNCHANGED held

----------------------------------------------------------------------------
(* Operations                                                              *)

\* mutant: the defaults are spread over the caller's record
construct_DefaultsWin(opts) ==
  LET builtin == [name |-> "logger", debug |-> TRUE]
      base == IF rev \in Revisions_1_1_0 THEN builtin ELSE options
  IN  IF opts.type = "string" THEN [base EXCEPT !.name = opts.v]
      ELSE IF opts.type = "record" THEN Spread(opts.v, base)
      ELSE base

\* new Logger(options)
construct(opts) ==
  LET builtin == [name |-> "logger", debug |-> TRUE]
      base == IF rev \in Revisions_1_1_0 THEN builtin ELSE options
  IN  IF opts.type = "string" THEN [base EXCEPT !.name = opts.v]
      ELSE IF opts.type = "record" THEN Spread(base, opts.v)
      ELSE base

New(i, opts) ==
  /\ Ready
  /\ instances' = [instances EXCEPT ![i] = construct(opts)]
  /\ console' = <<>>
  /\ UNCHANGED held
  /\ last' = Op("new", i, "", <<opts>>, "none", "", i, "")
  /\ UNCHANGED <<Static, rules, options, globalSelf>>

\* mutant: the setter assigns in every revision
set_name_Assigns(i, value) ==
  /\ Ready
  /\ instances' = [instances EXCEPT ![i].name = value]
  /\ console' = <<>>
  /\ last' = Op("set $name", i, "", <<Str(value)>>, "none", "", "", "")
  /\ UNCHANGED <<Static, held, rules, options, globalSelf>>

\* logger.$name = value. The setter of 1.1.0 has an empty body, the one of part_002
\* assigns; 1.2.0 and 1.3.2 define the getter alone, where the assignment throws a
\* TypeError in strict code and is ignored in sloppy code
set_name(i, value) ==
  /\ Ready
  /\ instances' = IF rev = "1.1.0-part_002" THEN [instances EXCEPT ![i].name = value]
                  ELSE instances
  /\ console' = <<>>
  /\ \E threw \in IF rev \in Revisions_1_1_0 THEN {"none"} ELSE {"none", "TypeError"} :
       last' = Op("set $name", i, "", <<Str(value)>>, threw,
                  IF threw = "none" THEN ""
                  ELSE "Cannot set property $name of #<Logger> which has only a getter",
                  "", "")
  /\ UNCHANGED <<Static, held, rules, options, globalSelf>>

\* logger.isActivated(method)
IsActivated(i, method) ==
  /\ Ready
  /\ console' = <<>>
  /\ last' = Op("isActivated", i, method, <<>>, "none", "",
                IF isActivated(instances[i], method) THEN "true" ELSE "false", "")
  /\ UNCHANGED <<Static, held, rules, options, globalSelf, instances>>

log(i, args) == Prints(printer(instances[i], "log", "lightseagreen", args), "log", i, "log", args)
warn(i, args) == Prints(printer(instances[i], "warn", "goldenrod", args), "warn", i, "warn", args)
trace(i, args) == Prints(printer(instances[i], "trace", "lightseagreen", args), "trace", i, "trace", args)

\* mutant: info is gated by, and printed through, its own name
info_OwnName(i, args) == Prints(printer(instances[i], "info", "lightseagreen", args), "info", i, "info", args)

\* mutant: debug is gated by, and printed through, its own name
debugLog_OwnName(i, args) == Prints(printer(instances[i], "debug", "lightseagreen", args), "debug", i, "debug", args)

\* info and debug are the log method
info(i, args) == Prints(printer(instances[i], "log", "lightseagreen", args), "info", i, "info", args)
debugLog(i, args) == Prints(printer(instances[i], "log", "lightseagreen", args), "debug", i, "debug", args)

\* logger.color(c): returns the function factory / logFactory builds over the instance,
\* 'log' and the color. The caller holds it through its calls of the function, of
\* color, of enable and disable and of the static configuration methods, the calls
\* that can change what the function does, and lets go of it before any other call
color(i, c) ==
  /\ Idling
  /\ held' = [self |-> i, color |-> c]
  /\ console' = <<>>
  /\ last' = Op("color(c)", i, c, <<>>, "none", "", "function", "")
  /\ UNCHANGED <<Static, rules, options, globalSelf, instances>>

\* the calls that can change what a later call of the instance does
StateChanging == {"enable", "disable", "config", "configRules"}

\* what a call notes of the call it follows at once
Following == IF last.op = "disable" THEN last.note
             ELSE IF last.op \in StateChanging THEN "after " \o last.op ELSE ""

\* mutant: the function prints in the default color of log
colored_DefaultColor(args) ==
  /\ held # NoFunction
  /\ Idling \/ last.op \in StateChanging
  /\ Returns(printer(instances[held.self], "log", "lightseagreen", args),
             "color(c)(...)", held.self, held.color, args, Following)
  /\ UNCHANGED held

\* the function the caller holds, called some time after color(c) returned it, also
\* as the very next call after one that changed the state
colored(args) ==
  /\ held # NoFunction
  /\ Idling \/ last.op \in StateChanging
  /\ Returns(printer(instances[held.self], "log", held.color, args),
             "color(c)(...)", held.self, held.color, args, Following)
  /\ UNCHANGED held

\* the caller lets go of the function it holds
release ==
  /\ Idling /\ held # NoFunction
  /\ held' = NoFunction
  /\ UNCHANGED <<Static, rules, options, globalSelf, instances, console, last>>

\* logger.color(c)(...args): the function color returns, called at once
colorCall(i, c, args) == Prints(printer(instances[i], "log", c, args), "color", i, c, args)

\* logger.error(...args): maps toString over the arguments and throws
errorMessage(args) == join([k \in 1..Len(args) |-> toString(args[k])], " ")

\* mutant: error is gated like the other methods and returns when not activated
error_Gated(i, args) ==
  /\ Ready
  /\ console' = <<>>
  /\ last' = IF isActivated(instances[i], "error")
             THEN Op("error", i, "error", args, "Error", "", "", "")
             ELSE Op("error", i, "error", args, "none", "", i, "")
  /\ UNCHANGED <<Static, held, rules, options, globalSelf, instances>>

error(i, args) ==
  LET bad == {k \in 1..Len(args) : ~hasToString(args[k])}
      first == CHOOSE k \in bad : \A j \in bad : k <= j
  IN  /\ Ready
      /\ console' = <<>>
      /\ last' = IF bad # {}
                 THEN Op("error", i, "error", args, "TypeError",
                         "Cannot read property 'toString' of " \o args[first].v, "", "")
                 ELSE Op("error", i, "error", args, "Error", errorMessage(args), "", "")
      /\ UNCHANGED <<Static, held, rules, options, globalSelf, instances>>

\* mutant: || in the place of &&
tableCalls_Or(self, data) ==
  IF isArray(data) \/ isPlainObject(data)
  THEN printer(self, "log", "lightseagreen", <<data>>)
  ELSE proxyRun(self, "table", <<data>>)

\* logger.table(data)
tableCalls(self, data) ==
  IF isArray(data) /\ isPlainObject(data)
  THEN printer(self, "log", "lightseagreen", <<data>>)
  ELSE proxyRun(self, "table", <<data>>)

table(i, data) == Prints(tableCalls(instances[i], data), "table", i, "table", <<data>>)

\* the arguments a pass-through method hands to proxyRun
passed(method, args) ==
  LET arg(k) == IF k <= Len(args) THEN args[k] ELSE Undefined
  IN  IF rev \in Revisions_1_1_0 \cup {"1.2.0"} THEN args
      ELSE IF method \in OneLabelMethods THEN <<arg(1)>>
      ELSE IF method \in NoArgMethods THEN <<>>
      ELSE IF method = "assert" THEN <<arg(1)>> \o (IF Len(args) > 1 THEN Tail(args) ELSE <<>>)
      ELSE args

PassThrough(i, method, args) ==
  Prints(proxyRun(instances[i], method, passed(method, args)), method, i, method, args)

\* the note of a disable() call: the instance and the debug flag it had before the call
Disabled(i, was) == "disable " \o i \o (IF was THEN " from true" ELSE " from false")

\* a call made on the value the last call returned, as in the chain
\* logger.disable().log(x).enable().log(y)
Chained(i) == ~Idling /\ last.threw = "none" /\ last.ret = i

\* logger.enable() and logger.disable(); enable() is also called on what disable()
\* returned, logger.disable().enable(), and then notes the flag disable() found
\* mutant: enable() leaves the debug flag as it is
enable_KeepsFlag(i) ==
  /\ Idling \/ (Chained(i) /\ last.op = "disable")
  /\ console' = <<>>
  /\ last' = Op("enable", i, "", <<>>, "none", "", i,
                IF last.note = Disabled(i, TRUE) THEN "after disable, debug was true"
                ELSE IF last.note = Disabled(i, FALSE) THEN "after disable, debug was false"
                ELSE "")
  /\ UNCHANGED <<Static, held, rules, options, globalSelf, instances>>

enable(i) ==
  /\ Idling \/ (Chained(i) /\ last.op = "disable")
  /\ instances' = [instances EXCEPT ![i].debug = TRUE]
  /\ console' = <<>>
  /\ last' = Op("enable", i, "", <<>>, "none", "", i,
                IF last.note = Disabled(i, TRUE) THEN "after disable, debug was true"
                ELSE IF last.note = Disabled(i, FALSE) THEN "after disable, debug was false"
                ELSE "")
  /\ UNCHANGED <<Static, held, rules, options, globalSelf>>

\* mutant: the debug flag is shared by the instances of one namespace
disable_SharedByName(i) ==
  /\ Idling
  /\ instances' = [j \in Loggers |->
                    IF instances[j].name = instances[i].name
                    THEN [instances[j] EXCEPT !.debug = FALSE] ELSE instances[j]]
  /\ console' = <<>>
  /\ last' = Op("disable", i, "", <<>>, "none", "", i, Disabled(i, instances[i].debug))
  /\ UNCHANGED <<Static, held, rules, options, globalSelf>>

disable(i) ==
  /\ Idling
  /\ instances' = [instances EXCEPT ![i].debug = FALSE]
  /\ console' = <<>>
  /\ last' = Op("disable", i, "", <<>>, "none", "", i, Disabled(i, instances[i].debug))
  /\ UNCHANGED <<Static, held, rules, options, globalSelf>>

chainedLog(i, args) ==
  /\ Chained(i)
  /\ \/ last.op = "disable"
     \/ last.op = "enable" /\ last.note = "disable().log().enable()"
  /\ Returns(printer(instances[i], "log", "lightseagreen", args), "log", i, "log", args,
             IF last.op = "disable" THEN "disable().log()" ELSE "disable().log().enable().log()")
  /\ UNCHANGED held

chainedEnable(i) ==
  /\ Chained(i)
  /\ last.op = "log" /\ last.note = "disable().log()"
  /\ instances' = [instances EXCEPT ![i].debug = TRUE]
  /\ console' = <<>>
  /\ last' = Op("enable", i, "", <<>>, "none", "", i, "disable().log().enable()")
  /\ UNCHANGED <<Static, held, rules, options, globalSelf>>

\* Logger.config(options) of 1.1.0: the stored entries are spread over the new ones
config(patch) ==
  /\ Idling
  /\ rev \in Revisions_1_1_0
  /\ rules' = Spread(patch, rules)
  /\ console' = <<>>
  /\ last' = Op("config", "", "", <<Rec(patch)>>, "none", "", "", "")
  /\ UNCHANGED <<Static, held, options, globalSelf, instances>>

\* Logger.config(options) of 1.2.0: the patch is spread over the default options
config_1_2_0(patch) ==
  /\ Idling
  /\ rev = "1.2.0"
  /\ options' = Spread(options, patch)
  /\ console' = <<>>
  /\ last' = Op("config", "", "", <<Rec(patch)>>, "none", "", "Logger", "")
  /\ UNCHANGED <<Static, held, rules, globalSelf, instances>>

\* Logger.config(options) of the README listing
config_README(patch) ==
  /\ Idling
  /\ rev = "1.3.2-readme"
  /\ options' = Spread(options, patch)
  /\ console' = <<>>
  /\ last' = Op("config", "", "", <<Rec(patch)>>, "none", "", "Logger", "")
  /\ UNCHANGED <<Static, held, rules, globalSelf, instances>>

\* Logger.config(options) of 1.3.2: ctr is the host's global `self`, whose property
\* `options` takes the merge; Logger.options stays
config_1_3_2(patch) ==
  /\ Idling
  /\ rev = "1.3.2"
  /\ globalSelf' = [globalSelf EXCEPT !.options = Spread(globalSelf.options, patch)]
  /\ console' = <<>>
  /\ last' = Op("config", "", "", <<Rec(patch)>>, "none", "", "Logger", "")
  /\ UNCHANGED <<Static, held, rules, options, instances>>

\* Logger.configRules(rules) of 1.3.2: ctr is the host's global `self`
configRules(patch) ==
  /\ Idling
  /\ rev = "1.3.2"
  /\ globalSelf' = [globalSelf EXCEPT !.rules = Spread(Spread(globalSelf.rules, patch), LOGGER_RULES)]
  /\ console' = <<>>
  /\ last' = Op("configRules", "", "", <<Rec(patch)>>, "none", "", "self", "")
  /\ UNCHANGED <<Static, held, rules, options, instances>>

\* mutant: the stored rules are dropped, only the patch and the mapping of localStorage stay
configRules_1_2_0_ForgetsStored(patch) ==
  /\ Idling
  /\ rev = "1.2.0"
  /\ rules' = Spread(patch, LOGGER_RULES)
  /\ console' = <<>>
  /\ last' = Op("configRules", "", "", <<Rec(patch)>>, "none", "", "Logger", "")
  /\ UNCHANGED <<Static, held, options, globalSelf, instances>>

\* Logger.configRules(rules) of 1.2.0: the stored rules, then the patch, then the
\* mapping of localStorage
configRules_1_2_0(patch) ==
  /\ Idling
  /\ rev = "1.2.0"
  /\ rules' = Spread(Spread(rules, patch), LOGGER_RULES)
  /\ console' = <<>>
  /\ last' = Op("configRules", "", "", <<Rec(patch)>>, "none", "", "Logger", "")
  /\ UNCHANGED <<Static, held, options, globalSelf, instances>>

\* mutant: the mapping of localStorage is not spread over the patch
configRules_README_NoOverride(patch) ==
  /\ Idling
  /\ rev = "1.3.2-readme"
  /\ rules' = Spread(rules, patch)
  /\ console' = <<>>
  /\ last' = Op("configRules", "", "", <<Rec(patch)>>, "none", "", "Logger", "")
  /\ UNCHANGED <<Static, held, options, globalSelf, instances>>

\* Logger.configRules(rules) of the README listing
configRules_README(patch) ==
  /\ Idling
  /\ rev = "1.3.2-readme"
  /\ rules' = Spread(Spread(rules, patch), LOGGER_RULES)
  /\ console' = <<>>
  /\ last' = Op("configRules", "", "", <<Rec(patch)>>, "none", "", "Logger", "")
  /\ UNCHANGED <<Static, held, options, globalSelf, instances>>

\* the call returns (or its exception reaches the caller), and the caller goes on
Resume ==
  /\ ~Idling
  /\ last' = Idle("")
  /\ console' = <<>>
  /\ UNCHANGED <<Static, held, rules, options, globalSelf, instances>>

----------------------------------------------------------------------------
(* The program                                                             *)

Patches == {OneKey(k, x) : k \in RuleKeys, x \in RuleValues}

\* the patches of the default options
OptionPatches == {[name |-> "logger.log", debug |-> FALSE], [name |-> "logger", debug |-> TRUE]}

\* the mappings found in localStorage at load
EnvMaps ==
  {EmptyObj,
   [k \in RuleKeys |-> IF k = "logger" THEN JsTrue ELSE JsFalse],
   [k \in RuleKeys |-> IF k = "logger" THEN JsFalse ELSE JsTrue]}

Init ==
  /\ rev \in Revisions
  /\ IS_DEV \in BOOLEAN
  /\ LOGGER_RULES \in EnvMaps
  /\ rules = IF rev = "1.2.0" THEN EmptyObj ELSE LOGGER_RULES
  /\ options = [name |-> "logger", debug |-> TRUE]
  /\ globalSelf = [rules |-> EmptyObj, options |-> EmptyObj]
  /\ \E o \in [Loggers -> CtorOptions] : instances = [i \in Loggers |-> construct(o[i])]
  /\ held = NoFunction
  /\ console = <<>>
  /\ last = Idle("")

\* every operation but a chained call, a call of the held function and Resume starts
\* where the caller is at rest
Next ==
  \/ Idling /\ \E i \in Loggers, o \in CtorOptions : New(i, o)
  \/ Idling /\ \E i \in Loggers, m \in QueriedMethods : IsActivated(i, m)
  \/ Idling /\ \E i \in Loggers, a \in LogArgs : log(i, a)
  \/ Idling /\ \E i \in Loggers, a \in ShortArgs : warn(i, a)
  \/ Idling /\ \E i \in Loggers, a \in ShortArgs : trace(i, a)
  \/ Idling /\ \E i \in Loggers, a \in ShortArgs : info(i, a)
  \/ Idling /\ \E i \in Loggers, a \in ShortArgs : debugLog(i, a)
  \/ Idling /\ \E i \in Loggers, c \in Colors, a \in ShortArgs : colorCall(i, c, a)
  \/ Idling /\ \E i \in Loggers, c \in Colors : color(i, c)
  \/ Idling /\ release
  \/ Idling /\ \E i \in Loggers, a \in ErrorArgs : error(i, a)
  \/ Idling /\ \E i \in Loggers, d \in TableData : table(i, d)
  \/ Idling /\ \E i \in Loggers, m \in PassMethods, a \in PassArgs : PassThrough(i, m, a)
  \/ Idling /\ \E i \in Loggers : disable(i)
  \/ Idling /\ \E i \in Loggers, n \in Names : set_name(i, n)
  \/ Idling /\ \E p \in Patches : config(p)
  \/ Idling /\ \E p \in OptionPatches : config_1_2_0(p)
  \/ Idling /\ \E p \in OptionPatches : config_README(p)
  \/ Idling /\ \E p \in OptionPatches : config_1_3_2(p)
  \/ Idling /\ \E p \in Patches : configRules(p)
  \/ Idling /\ \E p \in Patches : configRules_1_2_0(p)
  \/ Idling /\ \E p \in Patches : configRules_README(p)
  \/ \E a \in ShortArgs : colored(a)
  \/ \E i \in Loggers : enable(i)
  \/ \E i \in Loggers, a \in ShortArgs : chainedLog(i, a)
  \/ \E i \in Loggers : chainedEnable(i)
  \/ Resume

Spec == Init /\ [][Next]_vars

----------------------------------------------------------------------------
(* Properties                                                              *)

\* every $options record an instance can hold, and every argument of isActivated;
\* what depends on the configuration alone is stated where the caller is Ready: every
\* configuration the program reaches is reached there
Selves == [name : Names, debug : BOOLEAN]
AnyMethod == MethodNames \cup {NoMethod}

\* the instance the last call was made on
Self == instances[last.inst]

\* the calls that print or pass through to the console (all methods but error)
ForwardingOps == OutputMethods \cup PassMethods \cup {"table", "color"}

\* C1: with dev mode off, isActivated is false for every instance, every method (or
\* none), every rules mapping and either debug flag, and no call reaches the console
C1_DevModeOffSilent ==
  ~IS_DEV => /\ Ready => \A self \in Selves, m \in AnyMethod : ~isActivated(self, m)
             /\ console = <<>>

C1_Witness ==
  /\ ~IS_DEV
  /\ last.op = "warn"
  /\ Self = [name |-> "logger", debug |-> TRUE]
  /\ Get(rules, "logger") = JsTrue

\* C2: with dev mode on and the instance's debug flag true, a boolean rule under 'N.M'
\* alone decides isActivated(M) of a logger named N, whatever is stored under 'N'
C2_MethodRuleDecides ==
  (IS_DEV /\ Ready) =>
    \A self \in Selves, m \in MethodNames :
      LET sub == Get(rules, self.name \o "." \o m)
      IN  (self.debug /\ isBoolean(sub)) => (isActivated(self, m) <=> sub = JsTrue)

C2_Witness ==
  /\ IS_DEV
  /\ last.op = "isActivated" /\ last.method = "log" /\ last.ret = "true"
  /\ Self = [name |-> "logger", debug |-> TRUE]
  /\ Get(rules, "logger") = JsFalse
  /\ Get(rules, "logger.log") = JsTrue

BooleanRules == \A k \in DOMAIN rules : isBoolean(rules[k])

\* the rule under 'n.m' if present, else the rule under 'n' if present, else true
Resolved(n, m) ==
  IF m # NoMethod /\ (n \o "." \o m) \in DOMAIN rules THEN rules[n \o "." \o m] = JsTrue
  ELSE IF n \in DOMAIN rules THEN rules[n] = JsTrue
  ELSE TRUE

\* C3: with boolean rules, isActivated(M) = devMode /\ debug /\ r, where r is the rule
\* under 'N.M' if present, else the rule under 'N' if present, else true; without a
\* method, r is the rule under 'N' if present, else true
C3_Resolution ==
  (BooleanRules /\ Ready) =>
    \A self \in Selves, m \in AnyMethod :
      isActivated(self, m) <=> (IS_DEV /\ self.debug /\ Resolved(self.name, m))

C3_Witness ==
  /\ IS_DEV
  /\ last.op = "isActivated" /\ last.method = NoMethod /\ last.ret = "true"
  /\ Self = [name |-> "logger", debug |-> TRUE]
  /\ "logger" \notin DOMAIN rules
  /\ Get(rules, "logger.log") = JsFalse

\* C4: an instance whose debug flag is false forwards no call to the console from any
\* printing or pass-through method, whatever the rules say
C4_DebugOffSilent ==
  (last.op \in ForwardingOps /\ ~Self.debug) => console = <<>>

C4_Witness ==
  /\ IS_DEV
  /\ last.op = "log"
  /\ Self = [name |-> "logger", debug |-> FALSE]
  /\ Get(rules, "logger") = JsTrue
  /\ Get(rules, "logger.log") = JsTrue

\* the instance of the last call as it was before the disable() that preceded the call
BeforeDisable(was) == [Self EXCEPT !.debug = was]

\* C5 as claimed: after disable() and then enable(), isActivated(M) is for every M what
\* it was right before the disable(), whatever the debug flag was then

C5_RestoresWhateverDebugWas ==
  /\ last.op = "enable" /\ last.note = "after disable, debug was true"
       => \A m \in AnyMethod : isActivated(Self, m) <=> isActivated(BeforeDisable(TRUE), m)
  /\ last.op = "enable" /\ last.note = "after disable, debug was false"
       => \A m \in AnyMethod : isActivated(Self, m) <=> isActivated(BeforeDisable(FALSE), m)

\* C5 amended: after disable() and then enable() on an instance whose debug flag was
\* true before the disable(), isActivated(M) is for every M what it was before
C5_RestoresWhenDebugWasTrue ==
  last.op = "enable" /\ last.note = "after disable, debug was true"
    => \A m \in AnyMethod : isActivated(Self, m) <=> isActivated(BeforeDisable(TRUE), m)

C5_Witness ==
  /\ IS_DEV
  /\ last.op = "enable" /\ last.note = "after disable, debug was true"
  /\ isActivated(Self, "log")

text(value) == IF hasToString(value) THEN toString(value) ELSE value.v

\* C7 as claimed: for every argument list, null and undefined included, the failure
\* error raises carries the arguments' textual representations joined by one space
C7_MessageJoinsArguments ==
  last.op = "error"
    => last.message = join([k \in 1..Len(last.args) |-> text(last.args[k])], " ")

\* C8 as claimed: error(...) prints an error-level entry through the console and throws
C8_ErrorPrintsAndThrows ==
  last.op = "error"
    => /\ last.threw # "none"
       /\ \E k \in 1..Len(console) : console[k].method = "error"

C10_TableFallsBackToLog ==
  last.op = "table" =>
    console = IF isArray(last.args[1]) \/ isPlainObject(last.args[1])
              THEN proxyRun(Self, "table", last.args)
              ELSE printer(Self, "log", "lightseagreen", last.args)

\* the object handed to the last Logger.config or Logger.configRules call
Patch == last.args[1].v

\* the rule keys the mapping of localStorage does not hold
Programmatic == RuleKeys \ DOMAIN LOGGER_RULES

C12_OverrideAlwaysWins ==
  rev \in {"1.3.2", "1.3.2-readme"}
    => \A k \in DOMAIN LOGGER_RULES : k \in DOMAIN rules /\ rules[k] = LOGGER_RULES[k]

C12_Witness ==
  /\ rev = "1.3.2-readme" /\ last.op = "configRules"
  /\ Get(LOGGER_RULES, "logger") = JsTrue
  /\ Patch = OneKey("logger", JsFalse)
  /\ Get(rules, "logger") = JsTrue

\* C13 as claimed: in 1.1.0, after Logger.config(patch) every key of the patch that
\* the LOGGER mapping of localStorage does not hold has the patch's value
C13_NewPatchWins ==
  (rev = "1.1.0" /\ last.op = "config")
    => \A k \in DOMAIN Patch \cap Programmatic : Get(rules, k) = Patch[k]

\* C14 as claimed: in the revision of part_003, after configRules({N: false}), N absent
\* from the mapping of localStorage, isActivated() is false for every logger named N
C14_ConfigRulesTakesEffect ==
  (rev = "1.3.2" /\ last.op = "configRules")
    => \A n \in Names \cap DOMAIN Patch \cap Programmatic :
         Patch[n] = JsFalse
           => \A self \in Selves : name(self) = n => ~isActivated(self, NoMethod)

\* C15 as claimed: a pass-through method forwards, when activated for its own name,
\* exactly one call of its name with exactly the caller's argument list, and nothing
\* when it is not activated
C15_ForwardsExactArguments ==
  last.op \in PassMethods
    => console = IF isActivated(Self, last.op) THEN <<Call(last.op, last.args)>> ELSE <<>>

\* the instance methods that return the instance
ChainableOps == OutputMethods \cup PassMethods \cup {"table", "enable", "disable"}

\* C16: every instance method but error, isActivated and color returns the instance it
\* was called on, activated or not; in the chain logger.disable().log(x).enable().log(y),
\* every call made on what the call before it returned, log(x) forwards nothing and
\* log(y) forwards at most the one call of y
C16_ReturnsInstance ==
  /\ last.op \in ChainableOps => (last.threw = "none" /\ last.ret = last.inst)
  /\ last.note = "disable().log()" => console = <<>>
  /\ last.note = "disable().log().enable().log()"
       => console = IF isActivated(Self, "log")
                    THEN <<Call("log", formatted(Self, "lightseagreen", last.args))>>
                    ELSE <<>>

C16_Witness ==
  /\ last.note = "disable().log().enable().log()"
  /\ last.ret = "L1"
  /\ last.args = <<Str("a")>>
  /\ Len(console) = 1

\* the default color of a printing method
PrintColor(method) == IF method = "warn" THEN "goldenrod" ELSE "lightseagreen"

\* C17: log, warn and trace forward, when activated for their name, exactly one call of
\* that console method with '%c[N]:%c', 'color: C', '' and the caller's arguments in
\* order, every DOM element inside a one-element array; not activated they forward
\* nothing; they never throw
C17_PrintFormat ==
  last.op \in {"log", "warn", "trace"} =>
    /\ last.threw = "none"
    /\ console =
         IF isActivated(Self, last.op)
         THEN <<Call(last.op,
                     <<Str("%c[" \o Self.name \o "]:%c"),
                       Str("color: " \o PrintColor(last.op)), Str("")>>
                       \o [k \in 1..Len(last.args) |->
                             IF last.args[k].type = "element"
                             THEN [type |-> "array", v |-> last.args[k].v]
                             ELSE last.args[k]])>>
         ELSE <<>>

C17_Witness ==
  /\ last.op = "warn" /\ last.args = <<Elem>>
  /\ console = <<Call("warn", <<Str("%c[logger.log]:%c"), Str("color: goldenrod"), Str(""),
                                [type |-> "array", v |-> "<div>"]>>)>>

\* the name whose activation gates an output method
GateOf(method) == IF method \in {"info", "debug"} THEN "log" ELSE method

\* C18 as claimed: each of log, warn, trace, info and debug forwards iff isActivated of
\* its own name holds
C18_GatedByOwnName ==
  last.op \in OutputMethods => (console # <<>> <=> isActivated(Self, last.op))

\* C18, amended: log, warn and trace forward iff isActivated of their own name holds;
\* info and debug forward iff isActivated('log') holds
C18_GatedByOwnNameOrLog ==
  last.op \in OutputMethods => (console # <<>> <=> isActivated(Self, GateOf(last.op)))

C18_Witness ==
  /\ last.op = "info" /\ console = <<>>
  /\ IS_DEV /\ Self.debug
  /\ Get(rules, Self.name) # JsFalse
  /\ Get(rules, Self.name \o ".log") = JsFalse

\* C19: info(args) and debug(args) make the console calls log(args) makes in the same
\* state, return the instance, as log does, and change no state
C19_AliasesOfLog ==
  /\ [](last.op \in {"info", "debug"}
          => /\ console = printer(Self, "log", "lightseagreen", last.args)
             /\ last.threw = "none" /\ last.ret = last.inst)
  /\ [][last'.op \in {"info", "debug"}
          => UNCHANGED <<Static, held, rules, options, globalSelf, instances>>]_vars

C19_Witness ==
  /\ last.op = "debug" /\ last.args = <<Elem>>
  /\ Len(console) = 1 /\ console[1].method = "log"

\* the caller's arguments as log forwards them: a DOM element inside a one-element array
Wrapped(args) ==
  [k \in 1..Len(args) |-> IF args[k].type = "element"
                           THEN [type |-> "array", v |-> args[k].v] ELSE args[k]]

\* C20: the function color(c) returned forwards, when isActivated('log') holds as it is
\* called, exactly the call log makes but with the style 'color: c', forwards nothing
\* otherwise, returns the instance and changes no state; color(c) itself forwards
\* nothing and changes no state
C20_ColoredLog ==
  /\ [](last.op \in {"color", "color(c)(...)"}
          => /\ last.threw = "none" /\ last.ret = last.inst
             /\ console =
                  IF isActivated(Self, "log")
                  THEN <<Call("log", <<Str("%c[" \o Self.name \o "]:%c"),
                                       Str("color: " \o last.method), Str("")>>
                                       \o Wrapped(last.args))>>
                  ELSE <<>>)
  /\ [][last'.op \in {"color", "color(c)", "color(c)(...)"}
          => /\ last'.op = "color(c)" => console' = <<>>
             /\ UNCHANGED <<Static, rules, options, globalSelf, instances>>]_vars

C20_Witness ==
  /\ last.op = "color(c)(...)" /\ last.args = <<Elem>>
  /\ held = [self |-> "L2", color |-> "red"]
  /\ console = <<Call("log", <<Str("%c[logger]:%c"), Str("color: red"), Str(""),
                               [type |-> "array", v |-> "<div>"]>>)>>

\* the default options in force: built into the constructor in 1.1.0, Logger.options
\* from 1.2.0 on, which are name 'logger' and debug true until Logger.config changes them
Builtin == [name |-> "logger", debug |-> TRUE]
Defaults == IF rev \in Revisions_1_1_0 THEN Builtin ELSE options

\* the value the constructor's argument gives to an option, the default where it gives none
Given(arg, key) ==
  IF arg.type = "string" /\ key = "name" THEN arg.v
  ELSE IF arg.type = "record" /\ key \in DOMAIN arg.v THEN arg.v[key]
  ELSE Defaults[key]

\* C21: new Logger(s) has name s and the default debug; new Logger(record) has the
\* record's name and debug, the default for an entry the record lacks; new Logger()
\* has the defaults, which are 'logger' and true
C21_Construction ==
  last.op = "new" =>
    /\ Self = [name |-> Given(last.args[1], "name"), debug |-> Given(last.args[1], "debug")]
    /\ (last.args[1] = Undefined /\ options = Builtin) => Self = Builtin

C21_Witness ==
  /\ last.op = "new" /\ last.args = <<Rec(OneKey("debug", FALSE))>>
  /\ Self = [name |-> "logger", debug |-> FALSE]

\* C22: enable() and disable() change the debug flag of the instance they are called on
\* and nothing else: every other instance keeps its options and its isActivated
\* results, the rules and the default options stay
C22_InstancesIndependent ==
  [][last'.op \in {"enable", "disable"}
       => /\ instances'[last'.inst].name = instances[last'.inst].name
          /\ \A j \in Loggers \ {last'.inst} :
               /\ instances'[j] = instances[j]
               /\ \A m \in AnyMethod :
                    isActivated(instances[j], m)' = isActivated(instances[j], m)
          /\ UNCHANGED <<Static, rules, options, globalSelf>>]_vars

C22_Witness ==
  /\ last.op = "disable" /\ last.inst = "L1" /\ last.note = Disabled("L1", TRUE)
  /\ instances["L2"] = [name |-> instances["L1"].name, debug |-> TRUE]
  /\ isActivated(instances["L2"], "log")

\* the rule that decides for method m of namespace n: the one under 'n.m' if it is a
\* boolean, the one under 'n' otherwise (undefined where there is none)
Status(n, m) ==
  LET sub == Get(rules, n \o "." \o m)
  IN  IF m # NoMethod /\ sub \in {JsTrue, JsFalse} THEN sub ELSE Get(rules, n)

\* what isActivated(m) is to be in the present state
Active(self, m) == IS_DEV /\ self.debug /\ Status(self.name, m) # JsFalse

\* C23: every call of an output method, and of a function color() returned earlier, is
\* forwarded exactly when the dev-mode flag, the rules and the debug flag of the state
\* it is made in activate it, also when the call before it changed that state
C23_ReevaluatedEachCall ==
  last.op \in OutputMethods \cup {"color(c)(...)"}
    => (console # <<>> <=> Active(Self, IF last.op = "color(c)(...)" THEN "log"
                                       ELSE GateOf(last.op)))

C23_Witness ==
  /\ last.op = "color(c)(...)" /\ last.note = Disabled(held.self, TRUE)
  /\ IS_DEV /\ Status(Self.name, "log") # JsFalse
  /\ console = <<>>

\* C24: a value under 'N.M' that is not a boolean is ignored and the rule under 'N'
\* decides; a value under 'N' disables only when it is false; and isActivated, the
\* configuration calls and the output methods never throw
C24_MalformedTolerated ==
  /\ Ready => \A self \in Selves, m \in AnyMethod : isActivated(self, m) <=> Active(self, m)
  /\ last.op \in OutputMethods \cup {"isActivated", "config", "configRules"}
       => last.threw = "none"

C24_Witness ==
  /\ IS_DEV
  /\ last.op = "isActivated" /\ last.method = "log" /\ last.ret = "true"
  /\ Self = [name |-> "logger", debug |-> TRUE]
  /\ Get(rules, "logger") = Num0
  /\ Get(rules, "logger.log") = Num0

\* C25: the check that tests the debug flag before the rules (1.1.0, 1.2.0) and the
\* one that tests it after them (1.3.2) give the same result for every instance and
\* method, in every state of dev mode and rules; the result a call of isActivated
\* returns in any revision is the result of each of them
C25_OrderingsAgree ==
  /\ Ready => \A self \in Selves, m \in AnyMethod :
                /\ isActivated_1_1_0(self, m) <=> isActivated_1_3_2(self, m)
                /\ isActivated_1_2_0(self, m) <=> isActivated_1_3_2(self, m)
  /\ last.op = "isActivated"
       => /\ last.ret = "true" <=> isActivated_1_1_0(Self, last.method)
          /\ last.ret = "true" <=> isActivated_1_2_0(Self, last.method)
          /\ last.ret = "true" <=> isActivated_1_3_2(Self, last.method)

C25_Witness ==
  /\ IS_DEV
  /\ last.op = "isActivated" /\ last.method = "log" /\ last.ret = "false"
  /\ Get(rules, "logger") = JsFalse
  /\ Get(rules, "logger.log") = JsTrue
  /\ Self = [name |-> "logger", debug |-> FALSE]

\* every instance keeps its name through the step, unless the step constructs it
NameKept ==
  \A i \in Loggers : instances'[i].name = instances[i].name
                       \/ (last'.op = "new" /\ last'.inst = i)

\* C26 as claimed: in every revision no operation, an assignment to $name included,
\* changes the name of an instance
C26_NameImmutable == [][NameKept]_vars

\* C26, amended: in every revision but the one of part_002 no operation, an assignment
\* to $name included, changes the name of an instance
C26_NameImmutableButInPart002 == [][rev # "1.1.0-part_002" => NameKept]_vars

C26_Witness ==
  /\ rev = "1.1.0"
  /\ last.op = "set $name" /\ last.args = <<Str("logger.log")>>
  /\ Self.name = "logger"

\* Logger.config(patch), in the revisions revs, leaves the default options with the
\* patch's entries over the stored ones and touches no instance and no rule
ConfigMerges(revs) ==
  (last'.op = "config" /\ rev \in revs)
    => /\ options' = [k \in {"name", "debug"} |->
                        IF k \in DOMAIN last'.args[1].v THEN last'.args[1].v[k]
                        ELSE options[k]]
       /\ UNCHANGED <<Static, rules, instances>>

\* an instance constructed in the revisions revs takes from the default options what
\* its argument does not give
NewTakesDefaults(revs) ==
  (last.op = "new" /\ rev \in revs)
    => \A k \in {"name", "debug"} :
         Self[k] = IF last.args[1].type = "record" /\ k \in DOMAIN last.args[1].v
                   THEN last.args[1].v[k]
                   ELSE IF last.args[1].type = "string" /\ k = "name"
                   THEN last.args[1].v ELSE options[k]

\* C27 as claimed: in 1.2.0 and in 1.3.2, the code of part_003 and the README listing,
\* Logger.config(patch) merges the patch into the default options, the patch winning,
\* and an instance constructed afterwards takes its defaults from them
C27_DefaultOptions ==
  /\ [][ConfigMerges({"1.2.0", "1.3.2", "1.3.2-readme"})]_vars
  /\ [](NewTakesDefaults({"1.2.0", "1.3.2", "1.3.2-readme"}))

\* the same in 1.2.0 and the README listing alone
C27_DefaultOptionsButInPart003 ==
  /\ [][ConfigMerges({"1.2.0", "1.3.2-readme"})]_vars
  /\ [](NewTakesDefaults({"1.2.0", "1.3.2-readme"}))

C27_Witness ==
  /\ rev = "1.2.0"
  /\ last.op = "new" /\ last.inst = "L1" /\ last.args = <<Str("logger")>>
  /\ options = [name |-> "logger.log", debug |-> FALSE]
  /\ instances["L1"] = [name |-> "logger", debug |-> FALSE]
  /\ instances["L2"] = [name |-> "logger", debug |-> TRUE]

\* the rule the mapping of localStorage gives method m of namespace n
OverrideStatus(n, m) ==
  LET sub == Get(LOGGER_RULES, n \o "." \o m)
  IN  IF m # NoMethod /\ isBoolean(sub) THEN sub ELSE Get(LOGGER_RULES, n)

\* C28 as claimed: in 1.2.0 isActivated is false wherever the mapping of localStorage
\* resolves to false, from the start and before any configRules call
C28_OverrideFromStart ==
  (rev = "1.2.0" /\ Ready)
    => \A self \in Selves, m \in AnyMethod :
         OverrideStatus(self.name, m) = JsFalse => ~isActivated(self, m)

\* the rules without the entry under key
Without(key) == [k \in DOMAIN rules \ {key} |-> rules[k]]

\* isActivated(m) under the rules r
ActiveUnder(r, self, m) ==
  LET sub == Get(r, self.name \o "." \o m)
      status == IF m # NoMethod /\ sub \in {JsTrue, JsFalse} THEN sub ELSE Get(r, self.name)
  IN  IS_DEV /\ self.debug /\ status # JsFalse

\* C29 as claimed: a rule stored under 'N.M' changes no isActivated result of a logger
\* whose name is not N, the logger named 'N.M' included: the results are those the
\* rules without that entry give
C29_MethodRuleIsLocal ==
  Ready => \A n \in Names, m \in MethodNames :
             (n \o "." \o m) \in DOMAIN rules
               => \A self \in Selves, q \in AnyMethod :
                    self.name # n
                      => (isActivated(self, q) <=> ActiveUnder(Without(n \o "." \o m), self, q))

\* the operations that only read the state
ReadingOps == OutputMethods \cup PassMethods \cup {"isActivated", "table", "color", "color(c)", "color(c)(...)"}

\* C30: isActivated, color and every output and pass-through method leave the dev-mode
\* flag, the rules, the default options and every instance as they are, and hand the
\* console at most one call; isActivated and color hand it none
C30_ReadOnly ==
  [][last'.op \in ReadingOps
       => /\ UNCHANGED <<Static, rules, options, globalSelf, instances>>
          /\ Len(console') <= 1
          /\ last'.op \in {"isActivated", "color(c)"} => console' = <<>>]_vars

C30_Witness ==
  /\ last.op = "dir" /\ last.args = <<Str("a"), Num1>>
  /\ console = <<Call("dir", <<Str("a"), Num1>>)>>

====
